---- MODULE Spec2Model ----
(***************************************************************************)
(* Sermon discussion guide generator (src/main.py).                        *)
(*                                                                         *)
(* Text is modelled as a sequence of atoms.  An atom is one character, or, *)
(* for URLs, one fixed literal of the URL patterns (an atom such as        *)
(* "youtu.be/" stands for exactly these characters); the patterns of the   *)
(* source are matched on the atoms the way re.search matches them on the   *)
(* characters.  Python's None is the record None, a string s is Str(s), a  *)
(* raised exception is Raise(e).                                           *)
(***************************************************************************)
EXTENDS Integers, Sequences, FiniteSets, TLC

VARIABLES
    inputs,              \* main: sys.argv[1:]
    idx,                 \* main: position of the loop over inputs (1-based)
    pc,                  \* control point of main / generate_sermon_discussion_guide_pdf
    transcript,          \* generate_sermon_discussion_guide_pdf: transcript
    video_publish_date,  \* generate_sermon_discussion_guide_pdf: video_publish_date
    discussion_guide,    \* generate_sermon_discussion_guide_pdf: discussion_guide
    log,                 \* per item, the collaborators invoked for it, in order
    results,             \* per item, what generate_sermon_discussion_guide_pdf returned
    arg,                 \* argument of the function applied on its own
    ret,                 \* its result
    ret2,                \* result of the second application
    ph                   \* how far the applications went

vars == <<inputs, idx, pc, transcript, video_publish_date, discussion_guide,
          log, results, arg, ret, ret2, ph>>

batchVars == <<inputs, idx, pc, transcript, video_publish_date, discussion_guide,
               log, results>>

callVars == <<arg, ret, ret2, ph>>

-----------------------------------------------------------------------------
(* Values *)

None == [tag |-> "None"]

Str(s) == [tag |-> "str", s |-> s]

Raise(e) == [tag |-> "raise", exc |-> e]

Absent == [tag |-> "absent"]

IsNone(v) == v.tag = "None"

IsStr(v) == v.tag = "str"

IsRaise(v) == v.tag = "raise"

\* Python truthiness of an Optional[str]: `not v` is true for None and for ''.
Falsy(v) == IsNone(v) \/ (IsStr(v) /\ v.s = <<>>)

\* All sequences over S of length at most n.
SeqsUpTo(S, n) == UNION {[1..k -> S] : k \in 0..n}

Min(S) == CHOOSE x \in S : \A y \in S : x <= y

Max(S) == CHOOSE x \in S : \A y \in S : x >= y

Whitespace == {" ", "\n"}

RECURSIVE lstrip(_)
lstrip(s) ==
    IF s # <<>> /\ Head(s) \in Whitespace THEN lstrip(Tail(s)) ELSE s

RECURSIVE rstrip(_)
rstrip(s) ==
    IF s # <<>> /\ s[Len(s)] \in Whitespace
    THEN rstrip(SubSeq(s, 1, Len(s) - 1))
    ELSE s

\* str.strip()
strip(s) == rstrip(lstrip(s))

\* sep.join(parts)
RECURSIVE join(_, _)
join(sep, parts) ==
    IF parts = <<>> THEN <<>>
    ELSE IF Len(parts) = 1 THEN parts[1]
    ELSE parts[1] \o sep \o join(sep, Tail(parts))

-----------------------------------------------------------------------------
(* extract_video_id, is_youtube_url *)

\* The three URL shapes: the literal that must be present, and the character
\* the captured group stops at.  The optional scheme and "www." in front of
\* the literal take no part in the captured group.
patterns ==
    << [lit |-> <<"youtube.com/watch", "?", "v=">>, stop |-> "&"],
       [lit |-> <<"youtu.be/">>,                    stop |-> "?"],
       [lit |-> <<"youtube.com/embed/">>,           stop |-> "?"] >>

HasLitAt(s, i, lit) ==
    /\ i + Len(lit) - 1 <= Len(s)
    /\ \A j \in 1..Len(lit) : s[i + j - 1] = lit[j]

\* Positions where the pattern matches: the literal, then at least one
\* character other than the stop character.
MatchStarts(s, p) ==
    {i \in 1..Len(s) :
        /\ HasLitAt(s, i, p.lit)
        /\ i + Len(p.lit) <= Len(s)
        /\ s[i + Len(p.lit)] # p.stop}

\* re.search(pattern, s).group(1): leftmost match, greedy group.
Group1(s, p) ==
    LET i     == Min(MatchStarts(s, p))
        start == i + Len(p.lit)
        end   == Max({e \in start..Len(s) : \A j \in start..e : s[j] # p.stop})
    IN  SubSeq(s, start, end)

RECURSIVE FirstMatch(_, _)
FirstMatch(s, k) ==
    IF k > Len(patterns) THEN s
    ELSE IF MatchStarts(s, patterns[k]) # {} THEN Group1(s, patterns[k])
    ELSE FirstMatch(s, k + 1)

extract_video_id(youtube_url) == FirstMatch(youtube_url, 1)

is_youtube_url(input_string) ==
    \E i \in 1..Len(input_string) :
        input_string[i] \in {"youtube.com/watch", "youtube.com/embed/", "youtu.be/"}

-----------------------------------------------------------------------------
(* Publish date *)

Digits == {"0", "1", "2", "3", "4", "5", "6", "7", "8", "9"}

DigitVal(c) ==
    CASE c = "0" -> 0 [] c = "1" -> 1 [] c = "2" -> 2 [] c = "3" -> 3
      [] c = "4" -> 4 [] c = "5" -> 5 [] c = "6" -> 6 [] c = "7" -> 7
      [] c = "8" -> 8 [] c = "9" -> 9

\* int() of a string of digits
RECURSIVE int(_)
int(s) ==
    IF s = <<>> THEN 0 ELSE 10 * int(SubSeq(s, 1, Len(s) - 1)) + DigitVal(s[Len(s)])

Date(y, m, d) == [tag |-> "date", y |-> y, m |-> m, d |-> d]

\* datetime.now(): the current date, whatever it is
Now == [tag |-> "now"]

IsLeap(y) == (y % 4 = 0 /\ y % 100 # 0) \/ y % 400 = 0

DaysInMonth(y, m) ==
    IF m = 2 THEN (IF IsLeap(y) THEN 29 ELSE 28)
    ELSE IF m \in {4, 6, 9, 11} THEN 30 ELSE 31

\* datetime(year, month, day): ValueError outside the calendar
datetime(year, month, day) ==
    IF /\ year \in 1..9999
       /\ month \in 1..12
       /\ day \in 1..DaysInMonth(year, month)
    THEN Date(year, month, day)
    ELSE Raise("ValueError")

\* os.path.basename: what follows the last "/"
basename(path) ==
    LET seps == {i \in 1..Len(path) : path[i] = "/"}
    IN  IF seps = {} THEN path ELSE SubSeq(path, Max(seps) + 1, Len(path))

\* os.path.splitext(name)[0]: the name up to its last ".", unless only dots
\* precede that "."
splitext0(name) ==
    LET dots == {i \in 1..Len(name) : name[i] = "."}
    IN  IF dots = {} THEN name
        ELSE LET i == Max(dots)
             IN  IF \E j \in 1..(i - 1) : name[j] # "."
                 THEN SubSeq(name, 1, i - 1)
                 ELSE name

\* Positions where (\d{2})\.(\d{2})\.(\d{2}) matches
DateStarts(s) ==
    {i \in 1..Len(s) :
        /\ i + 7 <= Len(s)
        /\ \A j \in {0, 1, 3, 4, 6, 7} : s[i + j] \in Digits
        /\ s[i + 2] = "."
        /\ s[i + 5] = "."}

\* As local_publish_date, but reading the name as DD.MM.YY.
local_publish_date_day_first(input_source) ==
    LET filename == splitext0(basename(input_source))
    IN  IF DateStarts(filename) # {}
        THEN LET i     == Min(DateStarts(filename))
                 day   == int(SubSeq(filename, i, i + 1))
                 month == int(SubSeq(filename, i + 3, i + 4))
                 year  == int(SubSeq(filename, i + 6, i + 7))
             IN  datetime(year + 2000, month, day)
        ELSE Now

\* Local input: the date in the file name, MM.DD.YY (lines 448-456)
local_publish_date(input_source) ==
    LET filename == splitext0(basename(input_source))
    IN  IF DateStarts(filename) # {}
        THEN LET i     == Min(DateStarts(filename))
                 month == int(SubSeq(filename, i, i + 1))
                 day   == int(SubSeq(filename, i + 3, i + 4))
                 year  == int(SubSeq(filename, i + 6, i + 7))
             IN  datetime(year + 2000, month, day)
        ELSE Now

\* datetime.strptime(s, '%Y%m%d') of a string of eight characters
strptime_Ymd(s) ==
    IF Len(s) = 8 /\ \A j \in 1..8 : s[j] \in Digits
    THEN datetime(int(SubSeq(s, 1, 4)), int(SubSeq(s, 5, 6)), int(SubSeq(s, 7, 8)))
    ELSE Raise("ValueError")

\* Remote input: info_dict.get('upload_date', 'Unknown Date') (lines 433-437).
\* upload_date is Absent (no such key) or Str of eight characters.
remote_publish_date(upload_date) ==
    IF upload_date = Absent THEN Now
    ELSE strptime_Ymd(upload_date.s)

-----------------------------------------------------------------------------
(* get_youtube_transcript *)

\* What ydl.extract_info returns: the caption inventory of the video.  Each
\* group is Absent (no 'en' entry) or List of its English tracks.
Info(subtitles, automatic_captions) ==
    [tag |-> "info", subtitles |-> subtitles, automatic_captions |-> automatic_captions]

List(items) == [tag |-> "list", items |-> items]

Track(ext, url) == [ext |-> ext, url |-> url]

\* A parsed XML document: its elements in document order (root.iter order),
\* each with its qualified name and its text (None or Str).
Xml(elems) == [tag |-> "xml", elems |-> elems]

Elem(name, text) == [name |-> name, text |-> text]

TtmlP == "{http://www.w3.org/ns/ttml}p"

\* A payload ET.fromstring rejects.
Malformed == [tag |-> "malformed"]

\* As select_transcript_url, but falling back to the first track of another
\* format when there is no ttml track.
select_transcript_url_any_format(info) ==
    IF info.automatic_captions # Absent
    THEN LET englishCaptions == info.automatic_captions.items
             ttml_captions   == SelectSeq(englishCaptions, LAMBDA cap : cap.ext = "ttml")
         IN  IF ttml_captions # <<>> THEN Str(ttml_captions[1].url)
             ELSE IF englishCaptions # <<>> THEN Str(englishCaptions[1].url)
             ELSE None
    ELSE None

\* Lines 76-89: the URL of the track to download, or None.
select_transcript_url(info) ==
    IF info.automatic_captions # Absent
    THEN LET englishCaptions == info.automatic_captions.items
             ttml_captions   == SelectSeq(englishCaptions, LAMBDA cap : cap.ext = "ttml")
         IN  IF ttml_captions # <<>> THEN Str(ttml_captions[1].url) ELSE None
    ELSE None

\* Line 101: [p.text for p in root.iter('{http://www.w3.org/ns/ttml}p') if p.text]
ttml_segments(doc) ==
    LET kept == SelectSeq(doc.elems, LAMBDA p : p.name = TtmlP /\ ~Falsy(p.text))
    IN  [i \in 1..Len(kept) |-> kept[i].text.s]

\* Lines 96-104: parse the payload; the bare except turns any failure into None.
parse_ttml(transcript_data) ==
    IF transcript_data = Malformed THEN None
    ELSE Str(join(<<" ">>, ttml_segments(transcript_data)))

\* Lines 73-107, the body of the try.  env.info is what extract_info does
\* (an inventory or an exception), env.response what urlopen/read/decode does
\* (an exception, or the payload).  The result is the value returned or the
\* exception raised, with the URLs that were opened.
youtube_try_body(env) ==
    IF IsRaise(env.info) THEN [ret |-> env.info, fetched |-> <<>>]
    ELSE LET transcript_url == select_transcript_url(env.info)
         IN  IF IsNone(transcript_url) THEN [ret |-> None, fetched |-> <<>>]
             ELSE IF IsRaise(env.response)
                  THEN [ret |-> env.response, fetched |-> <<transcript_url.s>>]
                  ELSE [ret |-> parse_ttml(env.response), fetched |-> <<transcript_url.s>>]

\* As get_youtube_transcript, but without the except clause.
get_youtube_transcript_no_except(env) == youtube_try_body(env)

\* Lines 56-111: except Exception returns None.
get_youtube_transcript(env) ==
    LET r == youtube_try_body(env)
    IN  IF IsRaise(r.ret) THEN [ret |-> None, fetched |-> r.fetched] ELSE r

-----------------------------------------------------------------------------
(* read_local_transcript *)

\* f.readlines(): the lines of the text, each with its "\n"
RECURSIVE readlines(_)
readlines(text) ==
    IF text = <<>> THEN <<>>
    ELSE LET nl == {i \in 1..Len(text) : text[i] = "\n"}
         IN  IF nl = {} THEN <<text>>
             ELSE <<SubSeq(text, 1, Min(nl))>>
                  \o readlines(SubSeq(text, Min(nl) + 1, Len(text)))

\* As transcript_lines, but keeping only strides of four lines.
RECURSIVE transcript_lines_full_records(_, _)
transcript_lines_full_records(lines, i) ==
    IF i >= Len(lines) THEN <<>>
    ELSE LET here ==
                 IF i + 3 < Len(lines) /\ strip(lines[i + 3]) # <<>>
                 THEN <<strip(lines[i + 3])>>
                 ELSE <<>>
         IN  here \o transcript_lines_full_records(lines, i + 4)

\* Lines 372-377: the loop over range(0, len(lines), 4); i is 0-based.
RECURSIVE transcript_lines(_, _)
transcript_lines(lines, i) ==
    IF i >= Len(lines) THEN <<>>
    ELSE LET here ==
                 IF i + 2 < Len(lines) /\ strip(lines[i + 3]) # <<>>
                 THEN <<strip(lines[i + 3])>>
                 ELSE <<>>
         IN  here \o transcript_lines(lines, i + 4)

\* Lines 364-382, the body of the try.  file is Absent (os.path.isfile is
\* false), an exception raised by open/readlines, or Str(text).
local_try_body(file) ==
    IF file = Absent THEN None
    ELSE IF IsRaise(file) THEN file
    ELSE Str(join(<<"\n">>, transcript_lines(readlines(file.s), 0)))

\* Lines 352-385: except Exception returns None.
read_local_transcript(file) ==
    LET r == local_try_body(file)
    IN  [ret |-> IF IsRaise(r) THEN None ELSE r]

-----------------------------------------------------------------------------
(* Functions applied on their own: the inputs *)

MaxUrlLen == 5

MaxTracks == 2

MaxParas == 2

MaxTextLen == 2

MaxFileLen == 10

IdleBatch ==
    /\ inputs = <<>>
    /\ idx = 0
    /\ pc = "idle"
    /\ transcript = None
    /\ video_publish_date = None
    /\ discussion_guide = None
    /\ log = <<>>
    /\ results = <<>>

\* URL text: the literals of the three shapes, the two stop characters, the
\* scheme, and one character of an id.
UrlAtoms ==
    {"https://", "youtube.com/watch", "?", "v=", "youtu.be/", "youtube.com/embed/",
     "&", "x"}

UrlInputs == SeqsUpTo(UrlAtoms, MaxUrlLen)

\* Caption inventories: each group Absent or a list of tracks; a track's url
\* names its group and its position.
CaptionExts == {"ttml", "vtt", "json3"}

TrackLists(kind) ==
    {List([i \in 1..Len(exts) |-> Track(exts[i], <<kind, i>>)]) :
        exts \in SeqsUpTo(CaptionExts, MaxTracks)} \cup {Absent}

Infos ==
    {Info(m, a) : m \in TrackLists("manual"), a \in TrackLists("auto")}

\* Payloads: elements in and out of the TTML namespace, with no text, empty
\* text, or text over a blank and a letter.
ElemTexts == {None} \cup {Str(s) : s \in SeqsUpTo({" ", "a"}, MaxTextLen)}

Elems == {Elem(n, x) : n \in {TtmlP, "p"}, x \in ElemTexts}

Docs == {Xml(es) : es \in SeqsUpTo(Elems, MaxParas)}

HelloWorld ==
    Xml(<<Elem(TtmlP, Str(<<"a">>)), Elem(TtmlP, Str(<<>>)), Elem(TtmlP, Str(<<"a", "a">>))>>)

Responses ==
    {Raise("URLError"), Raise("UnicodeDecodeError"), Malformed, Xml(<<>>), HelloWorld}

OneTtmlTrack == Info(Absent, List(<<Track("ttml", <<"auto", 1>>)>>))

YoutubeEnvs ==
    {[fn |-> "youtube", info |-> i, response |-> r] :
        i \in Infos \cup {Raise("DownloadError")}, r \in Responses}
    \cup {[fn |-> "youtube", info |-> OneTtmlTrack, response |-> d] : d \in Docs}

\* Local files: not a file, unreadable, not UTF-8, or text.
Files ==
    {Absent, Raise("PermissionError"), Raise("UnicodeDecodeError")}
    \cup {Str(s) : s \in SeqsUpTo({"\n", " ", "a"}, MaxFileLen)}

LocalEnvs == {[fn |-> "local", file |-> f] : f \in Files}

\* Dates: a file name carrying MM.DD.YY and the platform's YYYYMMDD of the
\* same numbers, or neither.
DigitChar(n) ==
    CASE n = 0 -> "0" [] n = 1 -> "1" [] n = 2 -> "2" [] n = 3 -> "3" [] n = 4 -> "4"
      [] n = 5 -> "5" [] n = 6 -> "6" [] n = 7 -> "7" [] n = 8 -> "8" [] n = 9 -> "9"

Two(n) == <<DigitChar(n \div 10), DigitChar(n % 10)>>

DatedArg(yy, mm, dd, prefix, ext) ==
    [path        |-> prefix \o Two(mm) \o <<".">> \o Two(dd) \o <<".">> \o Two(yy) \o ext,
     upload_date |-> Str(<<"2", "0">> \o Two(yy) \o Two(mm) \o Two(dd)),
     dated       |-> TRUE,
     day         |-> [y |-> 2000 + yy, m |-> mm, d |-> dd],
     ext         |-> ext]

NamePrefixes == {<<>>, <<"S", " ">>, <<"1">>, <<"d", ".", "1", "/", "S">>}

NameExts == {<<>>, <<".", "t", "x", "t">>}

UndatedNames == {<<"S">>, <<"S", ".", "t", "x", "t">>, <<"0", "9", ".", "1", "4", ".", "t">>}

DateArgs ==
    {DatedArg(yy, mm, dd, p, e) :
        yy \in {0, 24, 25, 99}, mm \in {0, 1, 2, 9, 12, 13},
        dd \in {0, 1, 14, 29, 30, 31, 32}, p \in NamePrefixes, e \in NameExts}
    \cup {[path |-> n, upload_date |-> Absent, dated |-> FALSE,
             day |-> [y |-> 0, m |-> 0, d |-> 0], ext |-> <<>>] :
            n \in UndatedNames}

-----------------------------------------------------------------------------
(* Functions applied on their own: the specifications *)

InitCall(S) ==
    /\ IdleBatch
    /\ arg \in S
    /\ ret = None
    /\ ret2 = None
    /\ ph = "call"

CallExtractVideoId ==
    /\ ph = "call"
    /\ ret' = Str(extract_video_id(arg))
    /\ ph' = "once"
    /\ UNCHANGED <<arg, ret2, batchVars>>

CallExtractVideoIdAgain ==
    /\ ph = "once"
    /\ ret2' = Str(extract_video_id(ret.s))
    /\ ph' = "twice"
    /\ UNCHANGED <<arg, ret, batchVars>>

InitId == InitCall(UrlInputs)

NextId == CallExtractVideoId \/ CallExtractVideoIdAgain

SpecId == InitId /\ [][NextId]_vars

CallGetYoutubeTranscript ==
    /\ ph = "call"
    /\ arg.fn = "youtube"
    /\ ret' = get_youtube_transcript(arg)
    /\ ph' = "returned"
    /\ UNCHANGED <<arg, ret2, batchVars>>

CallReadLocalTranscript ==
    /\ ph = "call"
    /\ arg.fn = "local"
    /\ ret' = read_local_transcript(arg.file)
    /\ ph' = "returned"
    /\ UNCHANGED <<arg, ret2, batchVars>>

InitAcq == InitCall(YoutubeEnvs \cup LocalEnvs)

NextAcq == CallGetYoutubeTranscript \/ CallReadLocalTranscript

SpecAcq == InitAcq /\ [][NextAcq]_vars

CallLocalPublishDate ==
    /\ ph = "call"
    /\ ret' = local_publish_date(arg.path)
    /\ ph' = "local"
    /\ UNCHANGED <<arg, ret2, batchVars>>

CallRemotePublishDate ==
    /\ ph = "local"
    /\ ret2' = remote_publish_date(arg.upload_date)
    /\ ph' = "both"
    /\ UNCHANGED <<arg, ret, batchVars>>

InitDate == InitCall(DateArgs)

NextDate == CallLocalPublishDate \/ CallRemotePublishDate

SpecDate == InitDate /\ [][NextDate]_vars

-----------------------------------------------------------------------------
(* main and generate_sermon_discussion_guide_pdf *)

MaxBatch == 3

\* Command-line inputs: an empty argument, a video URL, and transcript files
\* named with a date, with numbers that are no date, and with no date.
InputItems ==
    { <<>>,
      <<"https://", "youtube.com/watch", "?", "v=", "x">>,
      <<"S", " ", "0", "9", ".", "1", "4", ".", "2", "5", ".", "t", "x", "t">>,
      <<"S", " ", "1", "3", ".", "4", "5", ".", "2", "5", ".", "t", "x", "t">>,
      <<"S", ".", "t", "x", "t">> }

\* What the platform and the network do for one video.
BatchYoutubeEnvs ==
    {[fn |-> "youtube", info |-> i, response |-> HelloWorld] :
        i \in {Raise("DownloadError"), Info(Absent, Absent)}}
    \cup {[fn |-> "youtube", info |-> OneTtmlTrack, response |-> r] : r \in Responses}

\* What the second extract_info (line 431) does: an exception, or an
\* info_dict whose upload_date is Absent or a string.
MetadataOutcomes ==
    {Raise("DownloadError"), Absent,
     Str(<<"2", "0", "2", "5", "0", "9", "1", "4">>),
     Str(<<"2", "0", "2", "5", "1", "3", "4", "5">>)}

\* What the file system holds at a local path.
BatchFiles ==
    {Absent, Raise("UnicodeDecodeError"), Str(<<>>),
     Str(<<"\n", "\n", "a", "\n", "\n", "\n", "\n", "a", "a", "\n">>)}

\* What client.models.generate_content does: an exception, or response.text.
GeminiOutcomes == {Raise("APIError"), None, Str(<<>>), Str(<<"g">>)}

\* What pdfkit.from_string does.
PdfOutcomes == {None, Raise("OSError")}

\* Lines 151-166: any exception becomes None.
generate_with_gemini(outcome) == IF IsRaise(outcome) THEN None ELSE outcome

\* Lines 169-340: the file name, or None when anything inside raised.
export_to_pdf(outcome, output_filename) ==
    IF IsRaise(outcome) THEN None ELSE output_filename

\* Line 482: the output file name is made of the publish date.
OutputFilename(date) == [tag |-> "filename", date |-> date]

\* As transcript_missing, but testing `transcript is None`.
transcript_missing_only_none(t) == IsNone(t)

\* Lines 424 and 441: `if not transcript`
transcript_missing(t) == Falsy(t)

\* Line 473: `if not discussion_guide`
guide_missing(g) == Falsy(g)

Event(call, val) == [call |-> call, val |-> val]

Logged(e) == [log EXCEPT ![idx] = Append(@, e)]

Init ==
    /\ inputs \in SeqsUpTo(InputItems, MaxBatch) \ {<<>>}
    /\ idx = 1
    /\ pc = "main"
    /\ transcript = None
    /\ video_publish_date = None
    /\ discussion_guide = None
    /\ log = <<>>
    /\ results = <<>>
    /\ arg = None
    /\ ret = None
    /\ ret2 = None
    /\ ph = "idle"

\* generate_sermon_discussion_guide_pdf returns v to the loop of main.
Return(v) ==
    /\ results' = Append(results, v)
    /\ idx' = idx + 1
    /\ pc' = "main"
    /\ transcript' = None
    /\ video_publish_date' = None
    /\ discussion_guide' = None

\* An exception leaves generate_sermon_discussion_guide_pdf; the loop of main
\* (lines 406-412) has no handler, so it leaves main too.
Escape(e) ==
    /\ results' = Append(results, e)
    /\ pc' = "crashed"
    /\ UNCHANGED <<idx, transcript, video_publish_date, discussion_guide>>

\* Lines 406-412: the next item.
MainLoop ==
    /\ pc = "main"
    /\ idx <= Len(inputs)
    /\ pc' = "generate"
    /\ log' = Append(log, <<>>)
    /\ UNCHANGED <<inputs, idx, transcript, video_publish_date, discussion_guide,
                   results, callVars>>

MainDone ==
    /\ pc = "main"
    /\ idx > Len(inputs)
    /\ pc' = "done"
    /\ UNCHANGED <<inputs, idx, transcript, video_publish_date, discussion_guide,
                   log, results, callVars>>

\* Lines 416-418
NoInput ==
    /\ pc = "generate"
    /\ inputs[idx] = <<>>
    /\ Return(None)
    /\ UNCHANGED <<inputs, log, callVars>>

\* Lines 421-426
AcquireYoutube ==
    /\ pc = "generate"
    /\ inputs[idx] # <<>>
    /\ is_youtube_url(inputs[idx])
    /\ \E env \in BatchYoutubeEnvs :
        LET t == get_youtube_transcript(env).ret
        IN  /\ log' = Logged(Event("acquire", t))
            /\ IF transcript_missing(t)
               THEN Return(None)
               ELSE /\ transcript' = t
                    /\ pc' = "youtube_metadata"
                    /\ UNCHANGED <<idx, video_publish_date, discussion_guide, results>>
    /\ UNCHANGED <<inputs, callVars>>

\* Lines 428-437
YoutubeMetadata ==
    /\ pc = "youtube_metadata"
    /\ \E m \in MetadataOutcomes :
        LET d == IF IsRaise(m) THEN m ELSE remote_publish_date(m)
        IN  IF IsRaise(d)
            THEN Escape(d)
            ELSE /\ video_publish_date' = d
                 /\ pc' = "prompt"
                 /\ UNCHANGED <<idx, transcript, discussion_guide, results>>
    /\ log' = Logged(Event("metadata", None))
    /\ UNCHANGED <<inputs, callVars>>

\* Lines 439-443
AcquireLocal ==
    /\ pc = "generate"
    /\ inputs[idx] # <<>>
    /\ ~is_youtube_url(inputs[idx])
    /\ \E f \in BatchFiles :
        LET t == read_local_transcript(f).ret
        IN  /\ log' = Logged(Event("acquire", t))
            /\ IF transcript_missing(t)
               THEN Return(None)
               ELSE /\ transcript' = t
                    /\ pc' = "local_metadata"
                    /\ UNCHANGED <<idx, video_publish_date, discussion_guide, results>>
    /\ UNCHANGED <<inputs, callVars>>

\* Lines 445-456
LocalMetadata ==
    /\ pc = "local_metadata"
    /\ LET d == local_publish_date(inputs[idx])
       IN  IF IsRaise(d)
           THEN Escape(d)
           ELSE /\ video_publish_date' = d
                /\ pc' = "prompt"
                /\ UNCHANGED <<idx, transcript, discussion_guide, results>>
    /\ log' = Logged(Event("metadata", None))
    /\ UNCHANGED <<inputs, callVars>>

\* Lines 458-475 (use_temporary_gemini_markdown_cache is False)
GenerateGuide ==
    /\ pc = "prompt"
    /\ \E o \in GeminiOutcomes :
        LET g == generate_with_gemini(o)
        IN  IF guide_missing(g)
            THEN Return(None)
            ELSE /\ discussion_guide' = g
                 /\ pc' = "export"
                 /\ UNCHANGED <<idx, transcript, video_publish_date, results>>
    /\ log' = Logged(Event("generate_with_gemini", transcript))
    /\ UNCHANGED <<inputs, callVars>>

\* Lines 482-487: the file name is returned whatever export_to_pdf returned.
ExportPdf ==
    /\ pc = "export"
    /\ \E o \in PdfOutcomes :
        LET output_filename == OutputFilename(video_publish_date)
            exported        == export_to_pdf(o, output_filename)
        IN  Return(output_filename)
    /\ log' = Logged(Event("export_to_pdf", discussion_guide))
    /\ UNCHANGED <<inputs, callVars>>

Next ==
    \/ MainLoop
    \/ MainDone
    \/ NoInput
    \/ AcquireYoutube
    \/ YoutubeMetadata
    \/ AcquireLocal
    \/ LocalMetadata
    \/ GenerateGuide
    \/ ExportPdf

Spec == Init /\ [][Next]_vars

-----------------------------------------------------------------------------
(* Properties *)

\* C1: once main has ended, normally or by an exception,
\* generate_sermon_discussion_guide_pdf has been invoked for every input: a
\* failure while processing one item never aborts the batch.
C1_EveryItemIsProcessed ==
    pc \in {"done", "crashed"} => Len(log) = Len(inputs)

\* C2: get_youtube_transcript and read_local_transcript return a transcript
\* or None, whatever fails inside the attempt; no exception reaches the caller.
C2_AcquisitionNeverRaises ==
    ph = "returned" =>
        /\ ~IsRaise(ret.ret)
        /\ IsNone(ret.ret) \/ IsStr(ret.ret)
        /\ arg.fn = "youtube" /\ IsRaise(youtube_try_body(arg).ret) => IsNone(ret.ret)
        /\ arg.fn = "local" /\ IsRaise(arg.file) => IsNone(ret.ret)

\* A transport failure after a ttml track was selected ended as None.
C2_Witness ==
    /\ ph = "returned"
    /\ arg.fn = "youtube"
    /\ arg.info = OneTtmlTrack
    /\ arg.response = Raise("URLError")
    /\ ret.fetched # <<>>
    /\ IsNone(ret.ret)

\* C3: when acquisition returns a transcript rather than None, the transcript
\* is not empty.
C3_SuccessIsNonEmpty ==
    ph = "returned" /\ ~IsNone(ret.ret) => ret.ret.s # <<>>

\* C4: when the inventory holds a manual English track, the track downloaded
\* is a manual one; an auto-generated track is downloaded only when there is
\* no manual English track.
C4_ManualPreferred ==
    (/\ ph = "returned"
     /\ arg.fn = "youtube"
     /\ ~IsRaise(arg.info)
     /\ arg.info.subtitles # Absent
     /\ arg.info.subtitles.items # <<>>)
    => /\ Len(ret.fetched) = 1
       /\ ret.fetched[1][1] = "manual"

\* C5: with no ttml track among the auto-generated English captions the
\* attempt ends as None and nothing is downloaded; with at least one, the
\* first ttml track of the list, and nothing else, is downloaded.
C5_TtmlOnly ==
    (/\ ph = "returned"
     /\ arg.fn = "youtube"
     /\ ~IsRaise(arg.info)
     /\ arg.info.automatic_captions # Absent)
    => LET caps == arg.info.automatic_captions.items
           ttml == {i \in 1..Len(caps) : caps[i].ext = "ttml"}
       IN  IF ttml = {}
           THEN IsNone(ret.ret) /\ ret.fetched = <<>>
           ELSE ret.fetched = <<caps[Min(ttml)].url>>

\* Auto-generated captions exist, none of them ttml: None, nothing downloaded.
C5_Witness ==
    /\ ph = "returned"
    /\ arg.fn = "youtube"
    /\ arg.info = Info(Absent, List(<<Track("vtt", <<"auto", 1>>), Track("json3", <<"auto", 2>>)>>))
    /\ arg.response = HelloWorld
    /\ IsNone(ret.ret)
    /\ ret.fetched = <<>>

\* The texts of the TTML-namespace paragraphs of a document, in document
\* order, those with empty or absent text left out.
ParagraphTexts(doc) ==
    LET RECURSIVE Texts(_)
        Texts(es) ==
            IF es = <<>> THEN <<>>
            ELSE (IF Head(es).name = TtmlP /\ IsStr(Head(es).text) /\ Head(es).text.s # <<>>
                  THEN <<Head(es).text.s>> ELSE <<>>) \o Texts(Tail(es))
    IN  Texts(doc.elems)

\* C6: for a well-formed payload the segments are the texts of the TTML
\* paragraphs in document order, empty or absent ones skipped, every segment
\* trimmed and non-empty, and the transcript is the segments joined by one
\* space.
C6_TtmlSegments ==
    (/\ ph = "returned"
     /\ arg.fn = "youtube"
     /\ arg.info = OneTtmlTrack
     /\ arg.response.tag = "xml")
    => LET segs == ttml_segments(arg.response)
       IN  /\ segs = ParagraphTexts(arg.response)
           /\ \A i \in 1..Len(segs) : segs[i] # <<>> /\ segs[i] = strip(segs[i])
           /\ ret.ret = Str(join(<<" ">>, segs))

\* The strides of four lines that have a third line which is not blank.
KeptStrides(lines) ==
    {k \in 0..Len(lines) : 4 * k + 2 < Len(lines) /\ strip(lines[4 * k + 3]) # <<>>}

\* The trimmed third lines of the kept strides, in the order of the file.
ThirdLines(lines) ==
    LET K      == KeptStrides(lines)
        Nth(j) == CHOOSE k \in K : Cardinality({x \in K : x < k}) = j - 1
    IN  [j \in 1..Cardinality(K) |-> strip(lines[4 * Nth(j) + 3])]

\* C7: for a readable file, read_local_transcript returns the trimmed lines
\* at index 4k+2 of every stride k with at least 3 lines and a non-blank
\* third line, in order, joined by newlines; a shorter trailing stride adds
\* nothing.
C7_ThirdLineOfEachStride ==
    ph = "returned" /\ arg.fn = "local" /\ IsStr(arg.file)
    => ret.ret = Str(join(<<"\n">>, ThirdLines(readlines(arg.file.s))))

\* One record of four lines, then a fragment of two: one line comes back.
C7_Witness ==
    /\ ph = "returned"
    /\ arg.fn = "local"
    /\ arg.file = Str(<<"\n", "\n", "a", "a", "\n", "\n", "a", "\n", "a">>)
    /\ ret.ret = Str(<<"a", "a">>)

\* C8: extract_video_id applied to its own result returns that result.
C8_Idempotent ==
    ph = "twice" => ret2 = ret

ValidDay(day) ==
    day.m \in 1..12 /\ day.d \in 1..DaysInMonth(day.y, day.m)

StageOrder == <<"acquire", "metadata", "generate_with_gemini", "export_to_pdf">>

\* C10: for every item the stages run in the order acquisition, metadata,
\* guide generation, export, each at most once; generate_with_gemini is
\* invoked only with a non-empty transcript and export_to_pdf only with a
\* non-empty guide; an item whose acquisition fails has no later stage and
\* returns no file name.
C10_StagesInOrder ==
    \A k \in 1..Len(log) :
        /\ Len(log[k]) <= Len(StageOrder)
        /\ \A i \in 1..Len(log[k]) :
            /\ log[k][i].call = StageOrder[i]
            /\ i > 1 => ~Falsy(log[k][1].val)
            /\ log[k][i].call = "generate_with_gemini" => ~Falsy(log[k][i].val)
            /\ log[k][i].call = "export_to_pdf" => ~Falsy(log[k][i].val)
        /\ (Len(log[k]) >= 1 /\ Falsy(log[k][1].val))
            => Len(log[k]) = 1 /\ (k <= Len(results) => IsNone(results[k]))
        /\ k <= Len(results) =>
            /\ results[k].tag = "filename" <=> Len(log[k]) = 4
            /\ IsRaise(results[k]) => Len(log[k]) = 2

\* The second of three items failed acquisition and the third was exported.
C10_Witness ==
    /\ pc = "done"
    /\ Len(inputs) = 3
    /\ Len(log[2]) = 1
    /\ Falsy(log[2][1].val)
    /\ IsNone(results[2])
    /\ Len(log[3]) = 4
    /\ results[3].tag = "filename"

====
